---- MODULE Spec2Model ----
(***************************************************************************)
(* MergeMaster (src/src/MergeFilesCommands.ts, src/src/gitignoreFilter.ts). *)
(* One command invocation (mergemaster.merge = ExportFiles, or             *)
(* mergemaster.copyContent = CopyFiles) over a small file system.          *)
(*                                                                         *)
(* Strings are sequences of tokens: a file or directory name is one token, *)
(* "/" and "\n" are tokens, a run of "=" is one token of that many          *)
(* characters.                                                             *)
(* An absolute path (fsPath) is the sequence of its segments.              *)
(***************************************************************************)
EXTENDS Integers, Sequences, FiniteSets, TLC

\* ------------------------------------------------------------------ bounds
\* longest selection handed to a command
MaxSel == 2
\* most I/O failures (stat, readDirectory, readFile) injected in one run
MaxFaults == 2

\* ------------------------------------------------------------ sequences
Last(s) == s[Len(s)]

Front(s) == SubSeq(s, 1, Len(s) - 1)

Range(s) == {s[i] : i \in 1..Len(s)}

RECURSIVE Concat(_)
\* the concatenation of a sequence of strings
Concat(ss) == IF ss = <<>> THEN <<>> ELSE Head(ss) \o Concat(Tail(ss))

\* the number of occurrences of x in s
Count(s, x) == Cardinality({i \in 1..Len(s) : s[i] = x})

\* s does not hold any element twice
NoDup(s) == \A i, j \in 1..Len(s) : s[i] = s[j] => i = j

\* sequences over S of length at most n
SeqUpTo(S, n) == UNION {[1..k -> S] : k \in 0..n}

\* ---------------------------------------------------------- file system
NL == "\n"

\* vscode.FileType.File / Directory / SymbolicLink (anything else)
File == "File"
Directory == "Directory"
SymbolicLink == "SymbolicLink"

\* workspace.workspaceFolders[0].uri.fsPath
WorkspaceRootPath == <<"w", "proj">>

\* The directories of the file system, each with its entries in the order
\* workspace.fs.readDirectory enumerates them: [name, FileType] tuples.
DirEntries ==
    (<<"w", "proj">> :> << <<"sub", Directory>>, <<"b.txt", File>>,
                           <<"a.log", File>>, <<"empty", Directory>> >>)
 @@ (<<"w", "proj", "sub">> :> << <<"b.txt", File>>, <<"deep", Directory>>,
                                  <<"link", SymbolicLink>> >>)
 @@ (<<"w", "proj", "sub", "deep">> :> << <<"y.log", File>>, <<"i.png", File>> >>)
 @@ (<<"w", "proj", "empty">> :> << >>)
 @@ (<<"w", "other">> :> << <<"z.txt", File>> >>)

Dirs == DOMAIN DirEntries

\* every entry of the file system, as path |-> FileType
TypeOf ==
    LET listed == UNION {{<<d \o <<DirEntries[d][i][1]>>, DirEntries[d][i][2]>> :
                            i \in 1..Len(DirEntries[d])} : d \in Dirs}
    IN  [p \in {e[1] : e \in listed} \cup Dirs |->
            IF p \in Dirs THEN Directory
            ELSE (CHOOSE e \in listed : e[1] = p)[2]]

Paths == DOMAIN TypeOf

Files == {p \in Paths : TypeOf[p] = File}

\* what fsPromises.readFile(path, 'utf8') returns
FileContent ==
    (<<"w", "proj", "b.txt">> :> <<"hello", NL, "world">>)
 @@ (<<"w", "proj", "a.log">> :> <<"=", "=", NL>>)
 @@ (<<"w", "proj", "sub", "b.txt">> :> << >>)
 @@ (<<"w", "proj", "sub", "deep", "y.log">> :> <<NL, "<--- End-File: ", "y.log", " --->", NL>>)
 @@ (<<"w", "other", "z.txt">> :> <<"zed">>)
 @@ (<<"w", "proj", "sub", "deep", "i.png">> :> <<"<U+FFFD>", "PNG", "<U+0000>", "<U+FFFD>">>)

\* the files whose bytes are not text: readFile(path, 'utf8') decodes them
\* all the same, with U+FFFD in place of what is not UTF-8
BinaryFiles == { <<"w", "proj", "sub", "deep", "i.png">> }

\* the entries a user can select in the explorer
Selectable ==
    { <<"w", "proj", "sub">>, <<"w", "proj", "b.txt">>, <<"w", "proj", "a.log">>,
      <<"w", "proj", "sub", "b.txt">>, <<"w", "proj", "empty">>,
      <<"w", "proj", "sub", "link">>, <<"w", "other">> }

\* ------------------------------------------------------------ path module
\* path.basename
basename(p) == Last(p)

\* the length of the longest common prefix of two paths
CommonLen(a, b) ==
    LET m == IF Len(a) < Len(b) THEN Len(a) ELSE Len(b)
        ks == {k \in 0..m : SubSeq(a, 1, k) = SubSeq(b, 1, k)}
    IN  CHOOSE k \in ks : \A j \in ks : j <= k

\* path.relative(from, to), as its segments ("" is the empty sequence)
relative(from, to) ==
    LET k == CommonLen(from, to)
    IN  [i \in 1..(Len(from) - k) |-> ".."] \o SubSeq(to, k + 1, Len(to))

\* segments joined by "/" into a string
RECURSIVE JoinSlash(_)
JoinSlash(segs) ==
    IF segs = <<>> THEN <<>>
    ELSE IF Len(segs) = 1 THEN <<segs[1]>>
    ELSE <<segs[1], "/">> \o JoinSlash(Tail(segs))

\* String.prototype.split('/'): the parts of a string, each a string
RECURSIVE split(_)
split(str) ==
    IF \A i \in 1..Len(str) : str[i] # "/" THEN <<str>>
    ELSE LET i == CHOOSE i \in 1..Len(str) :
                    str[i] = "/" /\ \A j \in 1..(i - 1) : str[j] # "/"
         IN  <<SubSeq(str, 1, i - 1)>> \o split(SubSeq(str, i + 1, Len(str)))

\* the relativePath string of buildTreeFromRoot and buildFilesContent
\* (root: the workspace root path, or <<>> when workspaceFolders is undefined)
relativePathOf(root, path) ==
    IF root # <<>>
    THEN <<basename(root)>> \o <<"/">> \o JoinSlash(relative(root, path))
    ELSE <<basename(path)>>

\* ------------------------------------------------------- gitignoreFilter.ts
\* The possible states of <workspaceRoot>/.gitignore: missing (readFileSync
\* throws), or present with some text.
GitignoreFiles ==
    { [exists |-> FALSE, text |-> << >>],
      [exists |-> TRUE, text |-> <<"*.log">>],
      [exists |-> TRUE, text |-> <<"*.log", NL, NL, "!a.log">>],
      [exists |-> TRUE, text |-> <<"# build", NL, "deep/">>] }

\* the file-name extension of a name, for the glob *.ext
Ext ==
    ("a.log" :> "log") @@ ("y.log" :> "log") @@ ("b.txt" :> "txt")
 @@ ("z.txt" :> "txt") @@ ("sub" :> "") @@ ("deep" :> "")
 @@ ("empty" :> "") @@ ("link" :> "") @@ ("proj" :> "") @@ ("other" :> "")
 @@ ("w" :> "") @@ (".." :> "") @@ ("i.png" :> "png")

\* one line of .gitignore as a rule of the ignore package: the glob *.ext,
\* a name, a directory-only name (trailing slash), and their negations
ParseLine ==
    ("*.log" :> [negative |-> FALSE, glob |-> TRUE, pattern |-> "log", dirOnly |-> FALSE])
 @@ ("!a.log" :> [negative |-> TRUE, glob |-> FALSE, pattern |-> "a.log", dirOnly |-> FALSE])
 @@ ("deep/" :> [negative |-> FALSE, glob |-> FALSE, pattern |-> "deep", dirOnly |-> TRUE])

\* the lines of a text
RECURSIVE Lines(_)
Lines(text) ==
    IF \A i \in 1..Len(text) : text[i] # NL THEN <<text>>
    ELSE LET i == CHOOSE i \in 1..Len(text) :
                    text[i] = NL /\ \A j \in 1..(i - 1) : text[j] # NL
         IN  <<SubSeq(text, 1, i - 1)>> \o Lines(SubSeq(text, i + 1, Len(text)))

\* ig.add(gitignoreContent): the rules of the text, in file order; blank
\* lines and comment lines carry no rule
igAdd(text) ==
    LET ls == Lines(text)
        isRule(l) == Len(l) = 1 /\ l[1] \in DOMAIN ParseLine
    IN  [i \in 1..Len(SelectSeq(ls, isRule)) |-> ParseLine[SelectSeq(ls, isRule)[i][1]]]

\* a rule matches the last segment of a path (a pattern without a slash
\* matches at any depth)
RuleMatches(rule, name, isDir) ==
    /\ rule.dirOnly => isDir
    /\ IF rule.glob THEN Ext[name] = rule.pattern ELSE name = rule.pattern

\* ignore's _testOne: the last matching rule decides
testOne(rules, name, isDir) ==
    LET ms == {i \in 1..Len(rules) : RuleMatches(rules[i], name, isDir)}
    IN  IF ms = {} THEN FALSE
        ELSE ~rules[CHOOSE i \in ms : \A j \in ms : j <= i].negative

\* ignore's _t: a path under an ignored directory is ignored, whatever the
\* rules say of the path itself
RECURSIVE igTest(_, _, _)
igTest(rules, rel, isDir) ==
    IF Len(rel) = 1 THEN testOne(rules, rel[1], isDir)
    ELSE IF igTest(rules, Front(rel), TRUE) THEN TRUE
    ELSE testOne(rules, Last(rel), isDir)

\* ig.ignores(relativePath) throws a RangeError on a path that is empty or
\* leaves the root ("../x"): it is not a path.relative()d path
igThrows(rel) == rel = <<>> \/ rel[1] = ".."

\* a predicate that tests nothing
applyFilter_none(filter, root, path) == "true"

\* The predicate getGitignoreFilter returns, applied to an absolute path:
\* "true", "false", or "throw".  filter.acceptAll is the () => true closure.
applyFilter(filter, root, path) ==
    IF filter.acceptAll THEN "true"
    ELSE LET rel == relative(root, path)
         IN  IF igThrows(rel) THEN "throw"
             ELSE IF igTest(filter.rules, rel, FALSE) THEN "false" ELSE "true"

\* getGitignoreFilter(workspaceRoot, respectGitignore)
getGitignoreFilter(respect, gitignore) ==
    IF ~respect THEN [acceptAll |-> TRUE, rules |-> << >>]
    ELSE [acceptAll |-> FALSE,
          rules |-> IF gitignore.exists THEN igAdd(gitignore.text) ELSE << >>]

\* ----------------------------------------------------- buildTreeFromRoot
\* The branch markers (box-drawing characters in the source, written in
\* ASCII here): "+-- " for the tee, "L-- " for the corner, "|   " for the bar.
Tee == "+-- "
Corner == "L-- "
Bar == "|   "
Blank == "    "

\* the position of a name in the order of String.prototype.localeCompare
NameRank ==
    (".." :> 1) @@ ("a.log" :> 2) @@ ("b.txt" :> 3) @@ ("deep" :> 4)
 @@ ("empty" :> 5) @@ ("i.png" :> 6) @@ ("link" :> 7) @@ ("other" :> 8)
 @@ ("proj" :> 9) @@ ("sub" :> 10) @@ ("w" :> 11) @@ ("y.log" :> 12)
 @@ ("z.txt" :> 13)

\* a.name.localeCompare(b.name) <= 0, for names that are strings of tokens
\* (the empty string sorts first)
RECURSIVE localeLeq(_, _)
localeLeq(a, b) ==
    IF a = <<>> THEN TRUE
    ELSE IF b = <<>> THEN FALSE
    ELSE IF Head(a) = Head(b) THEN localeLeq(Tail(a), Tail(b))
    ELSE NameRank[Head(a)] < NameRank[Head(b)]

\* Array.prototype.sort by name: the nodes of S (paths in the trie) in the
\* order of their last part
RECURSIVE sortByName(_)
sortByName(S) ==
    IF S = {} THEN <<>>
    ELSE LET m == CHOOSE n \in S : \A o \in S : localeLeq(Last(n), Last(o))
         IN  <<m>> \o sortByName(S \ {m})

\* new Set<string>() filled by add(): the strings of a sequence in first
\* insertion order, each once
RECURSIVE setOf(_)
setOf(strs) ==
    IF strs = <<>> THEN <<>>
    ELSE LET rest == setOf(Front(strs))
         IN  IF Last(strs) \in Range(rest) THEN rest ELSE Append(rest, Last(strs))

\* lines 76-85: the relativePaths set of a fileSet
relativePaths(fileSet, root) ==
    setOf([i \in 1..Len(fileSet) |-> relativePathOf(root, fileSet[i])])

\* lines 99-108: one path inserted into the trie.  The trie is a function
\* from a node's path of parts to its isFile flag; a node that exists keeps
\* the flag it was created with.
insertPath(tree, parts) ==
    LET new == {SubSeq(parts, 1, i) : i \in 1..Len(parts)} \ DOMAIN tree
    IN  tree @@ [n \in new |-> Len(n) = Len(parts)]

\* lines 95-109: the trie of the relative paths
RECURSIVE buildTrie(_)
buildTrie(rels) ==
    IF rels = <<>> THEN << >>
    ELSE insertPath(buildTrie(Front(rels)), split(Last(rels)))

\* node.children
childrenOf(tree, node) ==
    {n \in DOMAIN tree : Len(n) = Len(node) + 1 /\ SubSeq(n, 1, Len(node)) = node}

\* line 119: the node is rendered as a directory
rendersAsDir(tree, node) == childrenOf(tree, node) # {} /\ ~tree[node]

\* lines 112-130: renderTree(node, prefix)
RECURSIVE renderTree(_, _, _)
renderTree(tree, node, prefix) ==
    LET children == sortByName(childrenOf(tree, node))
        line(index) ==
            LET child == children[index]
                isLast == index = Len(children)
                connector == IF isLast THEN Corner ELSE Tee
            IN  IF rendersAsDir(tree, child)
                THEN prefix \o <<connector>> \o Last(child) \o <<"/", NL>>
                     \o renderTree(tree, child,
                                   prefix \o <<IF isLast THEN Blank ELSE Bar>>)
                ELSE prefix \o <<connector>> \o Last(child) \o <<NL>>
    IN  Concat([index \in 1..Len(children) |-> line(index)])

\* lines 133-143: the top-level lines
RootLines(tree) ==
    LET rootNodes == sortByName(childrenOf(tree, << >>))
    IN  IF Len(rootNodes) = 1
        THEN Last(rootNodes[1]) \o <<"/", NL>> \o renderTree(tree, rootNodes[1], << >>)
        ELSE Concat([i \in 1..Len(rootNodes) |->
                 Last(rootNodes[i])
                 \o (IF rendersAsDir(tree, rootNodes[i]) THEN <<"/">> ELSE << >>)
                 \o <<NL>> \o renderTree(tree, rootNodes[i], << >>)])

\* buildTreeFromRoot(fileSet), root the workspace root or <<>>
buildTreeFromRoot(fileSet, root) ==
    RootLines(buildTrie(relativePaths(fileSet, root)))

\* ----------------------------------------------------- buildFilesContent
\* '='.repeat(50)
SepWidth == 50

\* String.prototype.repeat
RECURSIVE repeat(_, _)
repeat(str, n) == IF n = 0 THEN "" ELSE str \o repeat(str, n - 1)

\* the separator line, one token of SepWidth characters
Separator == <<repeat("=", SepWidth)>>

\* lines 166-168: what precedes the content in a block
BlockHead(rel) ==
    <<NL>> \o Separator \o <<NL>>
    \o <<"<--- Start-File: ">> \o rel \o <<" --->", NL>>
    \o Separator \o <<NL, NL>>

\* the block tail with a single newline after the content
BlockTail_onePad(rel) ==
    <<NL>>
    \o Separator \o <<NL>>
    \o <<"<--- End-File: ">> \o rel \o <<" --->", NL>>
    \o Separator \o <<NL>>

\* lines 169-172: what follows the content in a block
BlockTail(rel) ==
    <<NL, NL>>
    \o Separator \o <<NL>>
    \o <<"<--- End-File: ">> \o rel \o <<" --->", NL>>
    \o Separator \o <<NL>>

\* lines 159-172: the block of one file
fileBlock(root, path, content) ==
    BlockHead(relativePathOf(root, path)) \o content \o BlockTail(relativePathOf(root, path))

\* ------------------------------------------------------------------ state
VARIABLES
    cmd,              \* the command invoked: "ExportFiles" or "CopyFiles"
    selectedFiles,    \* the selection, a sequence of paths
    respectGitignore, \* the mergemaster.respectGitignore setting
    workspaceFolders, \* TRUE: [WorkspaceRootPath, ..]; FALSE: undefined
    gitignore,        \* the .gitignore file of the workspace root
    pc,               \* the position of the command
    outputPath,       \* ExportFiles: a destination was chosen in the save dialog
    gitignoreFilter,  \* getFilesContent: the predicate built by getGitignoreFilter
    idx,              \* getFilesContent: index of the selection entry in the for loop
    stack,            \* the activations of listFiles, innermost last
    recursiveFiles,   \* getFilesContent: what listFiles(file) returned
    fidx,             \* getFilesContent: index of the inner loop over recursiveFiles
    fileSet,          \* getFilesContent: the Set<string>, in insertion order
    treeContent,      \* getFilesContent: what buildTreeFromRoot returned
    mergedContent,    \* buildFilesContent: the blocks so far
    ridx,             \* buildFilesContent: index of the file being read
    finalContent,     \* getFilesContent: the document returned
    destFile,         \* the file at the chosen destination
    clipboard,        \* env.clipboard
    messages,         \* what window.show...Message displayed
    thrown,           \* the error the command rejected with, "" if none
    faults,           \* I/O failures so far
    tested,           \* history: the paths handed to the gitignore predicate
    statFailed,       \* history: the selection indices whose stat failed
    listFailed,       \* history: <<selection index, directory>> whose listing failed
    readFailed,       \* history: the files whose readFile failed
    listings          \* history: <<selection index, directory>> of each readDirectory call

vars == <<cmd, selectedFiles, respectGitignore, workspaceFolders, gitignore, pc,
          outputPath, gitignoreFilter, idx, stack, recursiveFiles, fidx, fileSet,
          treeContent, mergedContent, ridx, finalContent, destFile, clipboard,
          messages, thrown, faults, tested, statFailed, listFailed, readFailed, listings>>

\* what a run never changes
inputs == <<cmd, selectedFiles, respectGitignore, workspaceFolders, gitignore>>

\* workspace.workspaceFolders?.[0]?.uri.fsPath, <<>> for undefined
workspaceRoot == IF workspaceFolders THEN WorkspaceRootPath ELSE << >>

NoText == [set |-> FALSE, text |-> << >>]

Text(t) == [set |-> TRUE, text |-> t]

AcceptAll == [acceptAll |-> TRUE, rules |-> << >>]

CopiedMessage == "Selected Files Content copied to clipboard"

NoWorkspaceError == "No workspace folder found"

\* the state every command starts from, whatever its inputs
Fresh ==
    /\ pc = "start"
    /\ outputPath = FALSE
    /\ gitignoreFilter = AcceptAll
    /\ idx = 1
    /\ stack = << >>
    /\ recursiveFiles = << >>
    /\ fidx = 1
    /\ fileSet = << >>
    /\ treeContent = << >>
    /\ mergedContent = << >>
    /\ ridx = 1
    /\ finalContent = NoText
    /\ destFile = NoText
    /\ clipboard = NoText
    /\ messages = << >>
    /\ thrown = ""
    /\ faults = 0
    /\ tested = {}
    /\ statFailed = {}
    /\ listFailed = {}
    /\ readFailed = {}
    /\ listings = << >>

Init ==
    /\ cmd \in {"ExportFiles", "CopyFiles"}
    /\ selectedFiles \in SeqUpTo(Selectable, MaxSel)
    /\ respectGitignore \in BOOLEAN
    /\ workspaceFolders \in BOOLEAN
    /\ gitignore \in GitignoreFiles
    /\ Fresh

\* an error leaves getFilesContent: the catch of ExportFiles or CopyFiles
\* logs it and throws it again
Throw(err) ==
    /\ pc' = "done"
    /\ thrown' = err

\* ------------------------------------------------------------ ExportFiles
\* ExportFiles without the return of line 241
selectOutputLocation_noReturn ==
    /\ pc = "start"
    /\ cmd = "ExportFiles"
    /\ \E result \in BOOLEAN :
          /\ outputPath' = (workspaceFolders /\ result)
          /\ pc' = "getFilesContent"
    /\ UNCHANGED listings
    /\ UNCHANGED <<inputs, gitignoreFilter, idx, stack, recursiveFiles, fidx, fileSet,
                   treeContent, mergedContent, ridx, finalContent, destFile,
                   clipboard, messages, thrown, faults, tested, statFailed,
                   listFailed, readFailed>>

\* lines 239-242 with selectOutputLocation (lines 21-36): no workspace
\* folder or a cancelled dialog gives undefined, and ExportFiles returns
selectOutputLocation ==
    /\ pc = "start"
    /\ cmd = "ExportFiles"
    /\ \E result \in BOOLEAN :
          /\ outputPath' = (workspaceFolders /\ result)
          /\ pc' = IF workspaceFolders /\ result THEN "getFilesContent" ELSE "done"
    /\ UNCHANGED listings
    /\ UNCHANGED <<inputs, gitignoreFilter, idx, stack, recursiveFiles, fidx, fileSet,
                   treeContent, mergedContent, ridx, finalContent, destFile,
                   clipboard, messages, thrown, faults, tested, statFailed,
                   listFailed, readFailed>>

\* ------------------------------------------------------- getFilesContent
\* lines 189-195: the workspace root check and the filter
getFilesContent ==
    /\ \/ pc = "getFilesContent"
       \/ pc = "start" /\ cmd = "CopyFiles"
    /\ IF ~workspaceFolders
       THEN Throw(NoWorkspaceError) /\ UNCHANGED gitignoreFilter
       ELSE /\ gitignoreFilter' = getGitignoreFilter(respectGitignore, gitignore)
            /\ pc' = "loop"
            /\ UNCHANGED thrown
    /\ UNCHANGED listings
    /\ UNCHANGED <<inputs, outputPath, idx, stack, recursiveFiles, fidx, fileSet,
                   treeContent, mergedContent, ridx, finalContent, destFile,
                   clipboard, messages, faults, tested, statFailed,
                   listFailed, readFailed>>

\* an array push in place of Set.add
setAdd_push(set, path) == Append(set, path)

\* fileSet.add(path)
setAdd(set, path) == IF path \in Range(set) THEN set ELSE Append(set, path)

\* line 200: workspace.fs.stat(file) fails; the catch of line 214 logs it
StatFails ==
    /\ pc = "loop"
    /\ idx <= Len(selectedFiles)
    /\ faults < MaxFaults
    /\ faults' = faults + 1
    /\ statFailed' = statFailed \cup {idx}
    /\ idx' = idx + 1
    /\ UNCHANGED listings
    /\ UNCHANGED <<inputs, pc, outputPath, gitignoreFilter, stack, recursiveFiles,
                   fidx, fileSet, treeContent, mergedContent, ridx, finalContent,
                   destFile, clipboard, messages, thrown, tested, listFailed,
                   readFailed>>

\* lines 201-204: the entry is a file
StatFile ==
    /\ pc = "loop"
    /\ idx <= Len(selectedFiles)
    /\ TypeOf[selectedFiles[idx]] = File
    /\ tested' = tested \cup {selectedFiles[idx]}
    /\ fileSet' = IF applyFilter(gitignoreFilter, workspaceRoot, selectedFiles[idx]) = "true"
                  THEN setAdd(fileSet, selectedFiles[idx])
                  ELSE fileSet
    /\ idx' = idx + 1
    /\ UNCHANGED listings
    /\ UNCHANGED <<inputs, pc, outputPath, gitignoreFilter, stack, recursiveFiles,
                   fidx, treeContent, mergedContent, ridx, finalContent,
                   destFile, clipboard, messages, thrown, faults, statFailed,
                   listFailed, readFailed>>

\* a new activation of listFiles(uri)
Frame(uri) == [uri |-> uri, read |-> FALSE, entries |-> << >>, k |-> 1, uris |-> << >>]

\* lines 205-207: the entry is a directory: listFiles(file) is called
StatDirectory ==
    /\ pc = "loop"
    /\ idx <= Len(selectedFiles)
    /\ TypeOf[selectedFiles[idx]] = Directory
    /\ stack' = <<Frame(selectedFiles[idx])>>
    /\ pc' = "listFiles"
    /\ UNCHANGED listings
    /\ UNCHANGED <<inputs, outputPath, gitignoreFilter, idx, recursiveFiles,
                   fidx, fileSet, treeContent, mergedContent, ridx, finalContent,
                   destFile, clipboard, messages, thrown, faults, tested,
                   statFailed, listFailed, readFailed>>

\* lines 201-213: the entry is neither a file nor a directory
StatOther ==
    /\ pc = "loop"
    /\ idx <= Len(selectedFiles)
    /\ TypeOf[selectedFiles[idx]] \notin {File, Directory}
    /\ idx' = idx + 1
    /\ UNCHANGED listings
    /\ UNCHANGED <<inputs, pc, outputPath, gitignoreFilter, stack, recursiveFiles,
                   fidx, fileSet, treeContent, mergedContent, ridx, finalContent,
                   destFile, clipboard, messages, thrown, faults, tested,
                   statFailed, listFailed, readFailed>>

\* -------------------------------------------------------------- listFiles
top == stack[Len(stack)]

\* stack with its innermost activation replaced
setTop(f) == [stack EXCEPT ![Len(stack)] = f]

\* line 63: the innermost listFiles returns uris: to the listFiles that
\* called it (line 57), or to getFilesContent (line 207)
Return(uris) ==
    IF Len(stack) > 1
    THEN /\ stack' = [Front(stack) EXCEPT ![Len(stack) - 1] =
                         [@ EXCEPT !.uris = @ \o uris, !.k = @ + 1]]
         /\ UNCHANGED <<pc, recursiveFiles, fidx>>
    ELSE /\ stack' = << >>
         /\ recursiveFiles' = uris
         /\ fidx' = 1
         /\ pc' = "filter"

\* line 49: readDirectory(uri) succeeds
ReadDirectory ==
    /\ pc = "listFiles"
    /\ ~top.read
    /\ stack' = setTop([top EXCEPT !.read = TRUE, !.entries = DirEntries[top.uri]])
    /\ listings' = Append(listings, <<idx, top.uri>>)
    /\ UNCHANGED <<inputs, pc, outputPath, gitignoreFilter, idx, recursiveFiles,
                   fidx, fileSet, treeContent, mergedContent, ridx, finalContent,
                   destFile, clipboard, messages, thrown, faults, tested,
                   statFailed, listFailed, readFailed>>

\* a failed readDirectory tried again by the same activation
ReadDirectoryFails_retries ==
    /\ pc = "listFiles"
    /\ ~top.read
    /\ faults < MaxFaults
    /\ faults' = faults + 1
    /\ listFailed' = listFailed \cup {<<idx, top.uri>>}
    /\ listings' = Append(listings, <<idx, top.uri>>)
    /\ UNCHANGED <<inputs, pc, outputPath, gitignoreFilter, idx, stack,
                   recursiveFiles, fidx, fileSet, treeContent, mergedContent,
                   ridx, finalContent, destFile, clipboard, messages, thrown,
                   tested, statFailed, readFailed>>

\* listFiles without its try/catch: the failure unwinds every activation and
\* reaches the catch of getFilesContent (line 214)
ReadDirectoryFails_propagates ==
    /\ pc = "listFiles"
    /\ ~top.read
    /\ faults < MaxFaults
    /\ faults' = faults + 1
    /\ listFailed' = listFailed \cup {<<idx, top.uri>>}
    /\ stack' = << >>
    /\ pc' = "loop"
    /\ idx' = idx + 1
    /\ listings' = Append(listings, <<idx, top.uri>>)
    /\ UNCHANGED <<inputs, outputPath, gitignoreFilter, fileSet, treeContent,
                   mergedContent, ridx, finalContent, destFile, clipboard,
                   messages, thrown, tested, statFailed, readFailed,
                   recursiveFiles, fidx>>

\* line 49: readDirectory(uri) fails; the catch of line 60 logs it and the
\* activation returns its (empty) uris
ReadDirectoryFails ==
    /\ pc = "listFiles"
    /\ ~top.read
    /\ faults < MaxFaults
    /\ faults' = faults + 1
    /\ listFailed' = listFailed \cup {<<idx, top.uri>>}
    /\ Return(top.uris)
    /\ listings' = Append(listings, <<idx, top.uri>>)
    /\ UNCHANGED <<inputs, outputPath, gitignoreFilter, idx, fileSet, treeContent,
                   mergedContent, ridx, finalContent, destFile, clipboard,
                   messages, thrown, tested, statFailed, readFailed>>

\* the entry the for loop of line 50 is at
entry == top.entries[top.k]

\* Uri.joinPath(uri, name)
childUri == top.uri \o <<entry[1]>>

\* lines 52-53: a file entry
EntryFile ==
    /\ pc = "listFiles"
    /\ top.read
    /\ top.k <= Len(top.entries)
    /\ entry[2] = File
    /\ stack' = setTop([top EXCEPT !.uris = Append(@, childUri), !.k = @ + 1])
    /\ UNCHANGED listings
    /\ UNCHANGED <<inputs, pc, outputPath, gitignoreFilter, idx, recursiveFiles,
                   fidx, fileSet, treeContent, mergedContent, ridx, finalContent,
                   destFile, clipboard, messages, thrown, faults, tested,
                   statFailed, listFailed, readFailed>>

\* lines 54-56: a directory entry: listFiles(childUri) is called
EntryDirectory ==
    /\ pc = "listFiles"
    /\ top.read
    /\ top.k <= Len(top.entries)
    /\ entry[2] = Directory
    /\ stack' = Append(stack, Frame(childUri))
    /\ UNCHANGED listings
    /\ UNCHANGED <<inputs, pc, outputPath, gitignoreFilter, idx, recursiveFiles,
                   fidx, fileSet, treeContent, mergedContent, ridx, finalContent,
                   destFile, clipboard, messages, thrown, faults, tested,
                   statFailed, listFailed, readFailed>>

\* an entry that is not a directory taken for a file
EntryOther_pushes ==
    /\ pc = "listFiles"
    /\ top.read
    /\ top.k <= Len(top.entries)
    /\ entry[2] \notin {File, Directory}
    /\ stack' = setTop([top EXCEPT !.uris = Append(@, childUri), !.k = @ + 1])
    /\ UNCHANGED listings
    /\ UNCHANGED <<inputs, pc, outputPath, gitignoreFilter, idx, recursiveFiles,
                   fidx, fileSet, treeContent, mergedContent, ridx, finalContent,
                   destFile, clipboard, messages, thrown, faults, tested,
                   statFailed, listFailed, readFailed>>

\* lines 52-58: an entry that is neither a file nor a directory
EntryOther ==
    /\ pc = "listFiles"
    /\ top.read
    /\ top.k <= Len(top.entries)
    /\ entry[2] \notin {File, Directory}
    /\ stack' = setTop([top EXCEPT !.k = @ + 1])
    /\ UNCHANGED listings
    /\ UNCHANGED <<inputs, pc, outputPath, gitignoreFilter, idx, recursiveFiles,
                   fidx, fileSet, treeContent, mergedContent, ridx, finalContent,
                   destFile, clipboard, messages, thrown, faults, tested,
                   statFailed, listFailed, readFailed>>

\* line 63: the entries are exhausted
ListReturn ==
    /\ pc = "listFiles"
    /\ top.read
    /\ top.k > Len(top.entries)
    /\ Return(top.uris)
    /\ UNCHANGED listings
    /\ UNCHANGED <<inputs, outputPath, gitignoreFilter, idx, fileSet, treeContent,
                   mergedContent, ridx, finalContent, destFile, clipboard,
                   messages, thrown, faults, tested, statFailed, listFailed,
                   readFailed>>

\* lines 208-212: one file of recursiveFiles.  A predicate that throws ends
\* the processing of this selection entry (catch of line 214).
FilterFile ==
    /\ pc = "filter"
    /\ fidx <= Len(recursiveFiles)
    /\ tested' = tested \cup {recursiveFiles[fidx]}
    /\ LET r == applyFilter(gitignoreFilter, workspaceRoot, recursiveFiles[fidx])
       IN  /\ fileSet' = IF r = "true" THEN setAdd(fileSet, recursiveFiles[fidx])
                         ELSE fileSet
           /\ IF r = "throw"
              THEN pc' = "loop" /\ idx' = idx + 1 /\ UNCHANGED fidx
              ELSE fidx' = fidx + 1 /\ UNCHANGED <<pc, idx>>
    /\ UNCHANGED listings
    /\ UNCHANGED <<inputs, outputPath, gitignoreFilter, stack, recursiveFiles,
                   treeContent, mergedContent, ridx, finalContent, destFile,
                   clipboard, messages, thrown, faults, statFailed, listFailed,
                   readFailed>>

\* line 212: recursiveFiles is exhausted
FilterDone ==
    /\ pc = "filter"
    /\ fidx > Len(recursiveFiles)
    /\ pc' = "loop"
    /\ idx' = idx + 1
    /\ UNCHANGED listings
    /\ UNCHANGED <<inputs, outputPath, gitignoreFilter, stack, recursiveFiles,
                   fidx, fileSet, treeContent, mergedContent, ridx, finalContent,
                   destFile, clipboard, messages, thrown, faults, tested,
                   statFailed, listFailed, readFailed>>

\* line 220: the selection is exhausted; the tree is built
BuildTree ==
    /\ pc = "loop"
    /\ idx > Len(selectedFiles)
    /\ treeContent' = buildTreeFromRoot(fileSet, workspaceRoot)
    /\ pc' = "buildFilesContent"
    /\ UNCHANGED listings
    /\ UNCHANGED <<inputs, outputPath, gitignoreFilter, idx, stack, recursiveFiles,
                   fidx, fileSet, mergedContent, ridx, finalContent, destFile,
                   clipboard, messages, thrown, faults, tested, statFailed,
                   listFailed, readFailed>>

\* ------------------------------------------------------ buildFilesContent
\* lines 158-172: one file is read and its block appended
ReadFile ==
    /\ pc = "buildFilesContent"
    /\ ridx <= Len(fileSet)
    /\ mergedContent' = mergedContent
                        \o fileBlock(workspaceRoot, fileSet[ridx], FileContent[fileSet[ridx]])
    /\ ridx' = ridx + 1
    /\ UNCHANGED listings
    /\ UNCHANGED <<inputs, pc, outputPath, gitignoreFilter, idx, stack,
                   recursiveFiles, fidx, fileSet, treeContent, finalContent,
                   destFile, clipboard, messages, thrown, faults, tested,
                   statFailed, listFailed, readFailed>>

\* line 159: readFile rejects; nothing in buildFilesContent or
\* getFilesContent catches it
ReadFileFails ==
    /\ pc = "buildFilesContent"
    /\ ridx <= Len(fileSet)
    /\ faults < MaxFaults
    /\ faults' = faults + 1
    /\ readFailed' = readFailed \cup {fileSet[ridx]}
    /\ Throw("readFile failed")
    /\ UNCHANGED listings
    /\ UNCHANGED <<inputs, outputPath, gitignoreFilter, idx, stack,
                   recursiveFiles, fidx, fileSet, treeContent, mergedContent,
                   ridx, finalContent, destFile, clipboard, messages, tested,
                   statFailed, listFailed>>

\* a joiner of one blank line
Joiner_short == <<NL, NL>>

\* the string between the tree and the blocks
Joiner == <<NL, NL, NL>>

\* lines 221-224: buildFilesContent returns, the document is composed
ComposeFinal ==
    /\ pc = "buildFilesContent"
    /\ ridx > Len(fileSet)
    /\ finalContent' = Text(treeContent \o Joiner \o mergedContent)
    /\ pc' = "deliver"
    /\ UNCHANGED listings
    /\ UNCHANGED <<inputs, outputPath, gitignoreFilter, idx, stack,
                   recursiveFiles, fidx, fileSet, treeContent, mergedContent,
                   ridx, destFile, clipboard, messages, thrown, faults, tested,
                   statFailed, listFailed, readFailed>>

\* ---------------------------------------------------------------- delivery
\* line 244: ExportFiles writes the document to the chosen path
WriteFile ==
    /\ pc = "deliver"
    /\ cmd = "ExportFiles"
    /\ destFile' = Text(finalContent.text)
    /\ pc' = "done"
    /\ UNCHANGED listings
    /\ UNCHANGED <<inputs, outputPath, gitignoreFilter, idx, stack,
                   recursiveFiles, fidx, fileSet, treeContent, mergedContent,
                   ridx, finalContent, clipboard, messages, thrown, faults,
                   tested, statFailed, listFailed, readFailed>>

\* lines 255-256: CopyFiles fills the clipboard and shows the message
WriteClipboard ==
    /\ pc = "deliver"
    /\ cmd = "CopyFiles"
    /\ clipboard' = Text(finalContent.text)
    /\ messages' = Append(messages, CopiedMessage)
    /\ pc' = "done"
    /\ UNCHANGED listings
    /\ UNCHANGED <<inputs, outputPath, gitignoreFilter, idx, stack,
                   recursiveFiles, fidx, fileSet, treeContent, mergedContent,
                   ridx, finalContent, destFile, thrown, faults, tested,
                   statFailed, listFailed, readFailed>>

Next ==
    \/ selectOutputLocation
    \/ getFilesContent
    \/ StatFails
    \/ StatFile
    \/ StatDirectory
    \/ StatOther
    \/ ReadDirectory
    \/ ReadDirectoryFails
    \/ EntryFile
    \/ EntryDirectory
    \/ EntryOther
    \/ ListReturn
    \/ FilterFile
    \/ FilterDone
    \/ BuildTree
    \/ ReadFile
    \/ ReadFileFails
    \/ ComposeFinal
    \/ WriteFile
    \/ WriteClipboard

Spec == Init /\ [][Next]_vars

\* ------------------------------------------- buildTreeFromRoot, called alone
\* the FileSets: sequences of distinct files (a Set in insertion order)
FileSets == {fs \in SeqUpTo(Files, Cardinality(Files)) : NoDup(fs)}

\* buildTreeFromRoot is about to be called on some FileSet, with or without
\* a workspace folder
InitTree ==
    /\ cmd = "CopyFiles"
    /\ selectedFiles = << >>
    /\ respectGitignore = FALSE
    /\ workspaceFolders \in BOOLEAN
    /\ gitignore = [exists |-> FALSE, text |-> << >>]
    /\ pc = "buildTreeFromRoot"
    /\ outputPath = FALSE
    /\ gitignoreFilter = AcceptAll
    /\ idx = 1
    /\ stack = << >>
    /\ recursiveFiles = << >>
    /\ fidx = 1
    /\ fileSet \in FileSets
    /\ treeContent = << >>
    /\ mergedContent = << >>
    /\ ridx = 1
    /\ finalContent = NoText
    /\ destFile = NoText
    /\ clipboard = NoText
    /\ messages = << >>
    /\ thrown = ""
    /\ faults = 0
    /\ tested = {}
    /\ statFailed = {}
    /\ listFailed = {}
    /\ readFailed = {}
    /\ listings = << >>

\* lines 74-146: the call returns the tree
TreeCall ==
    /\ pc = "buildTreeFromRoot"
    /\ treeContent' = buildTreeFromRoot(fileSet, workspaceRoot)
    /\ pc' = "treeDone"
    /\ UNCHANGED listings
    /\ UNCHANGED <<inputs, outputPath, gitignoreFilter, idx, stack, recursiveFiles,
                   fidx, fileSet, mergedContent, ridx, finalContent, destFile,
                   clipboard, messages, thrown, faults, tested, statFailed,
                   listFailed, readFailed>>

NextTree == TreeCall

SpecTree == InitTree /\ [][NextTree]_vars

\* lines 197-217 with 45-64: the steps of getFilesContent's loop and of the
\* listFiles calls under it
Resolve ==
    \/ StatFails
    \/ StatFile
    \/ StatDirectory
    \/ StatOther
    \/ ReadDirectory
    \/ ReadDirectoryFails
    \/ EntryFile
    \/ EntryDirectory
    \/ EntryOther
    \/ ListReturn
    \/ FilterFile
    \/ FilterDone

\* Every await of the loop is on a promise of the host (stat, readDirectory)
\* that settles, and the event loop then runs the continuation: a resolution
\* that can take a step takes one.
SpecFair == Spec /\ WF_vars(Resolve)

\* ================================================================ claims
\* the number of places where sub occurs in str
CountSub(str, sub) ==
    Cardinality({i \in 1..(Len(str) - Len(sub) + 1) :
                    str[i] = sub[1] /\ SubSeq(str, i, i + Len(sub) - 1) = sub})

\* the Start-File line of a path
StartLine(p) == <<"<--- Start-File: ">> \o relativePathOf(workspaceRoot, p) \o <<" --->", NL>>

\* the End-File line of a path
EndLine(p) == <<"<--- End-File: ">> \o relativePathOf(workspaceRoot, p) \o <<" --->", NL>>

\* the non-empty lines of a tree
TreeLines(tree) == SelectSeq(Lines(tree), LAMBDA l : l # << >>)

\* the leaf (file) lines and the directory lines of a tree
LeafLines(tree) == {i \in 1..Len(TreeLines(tree)) : Last(TreeLines(tree)[i]) # "/"}

DirLines(tree) == {i \in 1..Len(TreeLines(tree)) : Last(TreeLines(tree)[i]) = "/"}

\* the leaf lines that stand for path p: its name, at the depth of its
\* relative path (one glyph per part after the first, then the name)
LeafLinesOf(tree, p) ==
    {i \in LeafLines(tree) :
        /\ Last(TreeLines(tree)[i]) = basename(p)
        /\ Len(TreeLines(tree)[i]) = Len(split(relativePathOf(workspaceRoot, p)))}

\* the selection entry at i is an ancestor directory of the entry at j
Nested(i, j) ==
    /\ Len(selectedFiles[i]) < Len(selectedFiles[j])
    /\ SubSeq(selectedFiles[j], 1, Len(selectedFiles[i])) = selectedFiles[i]

\* ------------------------------------------------------------------- C1
\* C1: whatever the selection (duplicates, a directory together with a file
\* inside it), the FileSet never holds a path twice, and the document that
\* getFilesContent returns has exactly one content block and exactly one
\* tree leaf for every path of the FileSet, and no others.
C1_Dedup ==
    /\ NoDup(fileSet)
    /\ finalContent.set =>
          /\ \A p \in Range(fileSet) :
                /\ CountSub(finalContent.text, StartLine(p)) = 1
                /\ CountSub(finalContent.text, EndLine(p)) = 1
                /\ Cardinality(LeafLinesOf(treeContent, p)) = 1
          /\ Count(finalContent.text, "<--- Start-File: ") = Cardinality(Range(fileSet))
          /\ Cardinality(LeafLines(treeContent)) = Cardinality(Range(fileSet))

\* a directory and a file inside it were both selected, the file is in the
\* FileSet and the document was produced
C1_Witness ==
    /\ finalContent.set
    /\ \E i, j \in 1..Len(selectedFiles) :
          /\ Nested(i, j)
          /\ TypeOf[selectedFiles[j]] = File
          /\ selectedFiles[j] \in Range(fileSet)
          /\ statFailed = {} /\ listFailed = {}

\* ------------------------------------------------------------------- C2
\* the rules in force: those of .gitignore when filtering is enabled
ActiveRules ==
    IF respectGitignore /\ gitignore.exists THEN igAdd(gitignore.text) ELSE << >>

\* path p is under the workspace root
UnderRoot(p) == Len(p) > Len(WorkspaceRootPath)
                /\ SubSeq(p, 1, Len(WorkspaceRootPath)) = WorkspaceRootPath

\* the root-relative path of p matches an ignore rule
MatchesRule(p) ==
    UnderRoot(p) /\ igTest(ActiveRules, relative(WorkspaceRootPath, p), FALSE)

\* the files listFiles reaches from directory d while entry i of the
\* selection is processed, given the listings that failed
RECURSIVE FilesUnder(_, _)
FilesUnder(d, i) ==
    IF <<i, d>> \in listFailed THEN {}
    ELSE UNION {IF DirEntries[d][k][2] = File THEN {d \o <<DirEntries[d][k][1]>>}
                ELSE IF DirEntries[d][k][2] = Directory
                     THEN FilesUnder(d \o <<DirEntries[d][k][1]>>, i)
                     ELSE {} : k \in 1..Len(DirEntries[d])}

\* the files entry i of the selection leads to
Reached(i) ==
    IF i \in statFailed THEN {}
    ELSE IF TypeOf[selectedFiles[i]] = File THEN {selectedFiles[i]}
    ELSE IF TypeOf[selectedFiles[i]] = Directory THEN FilesUnder(selectedFiles[i], i)
    ELSE {}

\* C2 (state part): with filtering enabled, no file matching a rule is in the
\* FileSet, the tree or the content; a file under the root that matches no
\* rule and is reached by a finished selection entry is in the FileSet.
C2_Filtered ==
    respectGitignore =>
       /\ \A p \in Files :
             MatchesRule(p) =>
                /\ p \notin Range(fileSet)
                /\ LeafLinesOf(treeContent, p) = {}
                /\ CountSub(mergedContent, StartLine(p)) = 0
       /\ \A i \in 1..(idx - 1) : \A p \in Reached(i) :
             (UnderRoot(p) /\ ~MatchesRule(p)) => p \in Range(fileSet)

\* C2 (step part): a path enters the FileSet only in the step that tested it
\* and found it accepted, and no path is removed from the FileSet afterwards.
C2_TestedBeforeInsert ==
    /\ \A p \in Range(fileSet') \ Range(fileSet) :
          /\ p \in tested'
          /\ respectGitignore => ~MatchesRule(p)
    /\ Range(fileSet) \subseteq Range(fileSet')

relPathLeq(a, b) ==
    localeLeq(relativePathOf(workspaceRoot, a), relativePathOf(workspaceRoot, b))

\* the paths of S sorted by relative path
RECURSIVE SortedByRelativePath(_)
SortedByRelativePath(S) ==
    IF S = {} THEN <<>>
    ELSE LET m == CHOOSE a \in S : \A b \in S : relPathLeq(a, b)
         IN  <<m>> \o SortedByRelativePath(S \ {m})

\* the content output of a set of files, in the order of their relative paths
ContentOfSet(S) ==
    Concat([i \in 1..Cardinality(S) |->
              fileBlock(workspaceRoot, SortedByRelativePath(S)[i],
                        FileContent[SortedByRelativePath(S)[i]])])

\* C3: the tree and the content output depend only on the set of files, not
\* on the order of the selection or of directory listings: the content blocks
\* stand in the order of their relative paths, the tree is that of the set.
C3_OrderIndependent ==
    finalContent.set =>
       /\ mergedContent = ContentOfSet(Range(fileSet))
       /\ treeContent = buildTreeFromRoot(SortedByRelativePath(Range(fileSet)), workspaceRoot)

\* ------------------------------------------------------------------- C4
\* C4: when the read of one file fails, the command still completes without
\* an error and returns a document with the block of every other file.
C4_ReadFailureSkipsOneBlock ==
    (pc = "done" /\ readFailed # {}) =>
       /\ thrown = ""
       /\ finalContent.set
       /\ \A p \in Range(fileSet) \ readFailed :
             CountSub(finalContent.text, StartLine(p)) = 1

\* ------------------------------------------------------------------- C5
\* C5: a failed stat or a failed directory listing at any depth is not fatal
\* and costs only the entry or subtree it hit: once the loop is past a
\* selection entry, every file reached from it through the listings that
\* succeeded, and accepted by the ignore predicate, is in the FileSet; the
\* command ends without error unless something else fails.
C5_OnlyFailedSubtreeSkipped ==
    /\ \A i \in 1..(idx - 1) : \A p \in Reached(i) :
          applyFilter(gitignoreFilter, workspaceRoot, p) = "true"
             => p \in Range(fileSet)
    /\ (pc = "done" /\ (statFailed # {} \/ listFailed # {}) /\ readFailed = {})
          => (thrown = "" /\ finalContent.set)

\* the listing of a subdirectory failed below a selected directory; a file
\* enumerated before it in its parent and a file of a later selection entry
\* are both in the FileSet of the finished document
C5_Witness ==
    /\ finalContent.set
    /\ \E i, j \in 1..Len(selectedFiles) : \E d \in Dirs :
          /\ i < j
          /\ <<i, d>> \in listFailed
          /\ d # selectedFiles[i]
          /\ \E k \in 1..Len(DirEntries[Front(d)]) :
                /\ DirEntries[Front(d)][k][2] = File
                /\ \E m \in (k + 1)..Len(DirEntries[Front(d)]) :
                      DirEntries[Front(d)][m][1] = Last(d)
                /\ Front(d) \o <<DirEntries[Front(d)][k][1]>> \in Range(fileSet)
          /\ Reached(j) # {}
          /\ Reached(j) \subseteq Range(fileSet)
          /\ ~(Reached(j) \subseteq Reached(i))

\* ------------------------------------------------------------------- C6
\* no workspace root, or (for the export) no destination chosen
Fatal == ~workspaceFolders \/ (cmd = "ExportFiles" /\ ~outputPath)

\* C6: under a fatal condition the export and the copy both end without any
\* output (no file written, clipboard untouched) and with a message for the
\* user: one shown in the window, or the error the command rejects with.
C6_FatalAbortsWithMessage ==
    (pc = "done" /\ Fatal) =>
       /\ ~destFile.set
       /\ ~clipboard.set
       /\ (messages # << >> \/ thrown # "")

\* ------------------------------------------------------------------- C7
\* a line of fifty "="
Eq50 == "=================================================="

\* the block of the documented format for a relative path and a content
ExpectedBlock(rel, content) ==
    <<NL, Eq50, NL, "<--- Start-File: ">> \o rel \o <<" --->", NL, Eq50, NL, NL>>
    \o content
    \o <<NL, NL, Eq50, NL, "<--- End-File: ">> \o rel \o <<" --->", NL, Eq50, NL>>

Malformed == <<[rel |-> <<"?">>, content |-> <<"?">>]>>

\* A reader of the content output: each block is a Start-File separator
\* (three lines after a newline) naming a relative path, a blank line, the
\* content, a blank-line padding and the End-File separator of the same path.
\* The result is the sequence of [rel, content] read, or Malformed.
RECURSIVE ParseBlocks(_)
ParseBlocks(doc) ==
    IF doc = << >> THEN << >>
    ELSE IF Len(doc) < 6 \/ SubSeq(doc, 1, 4) # <<NL, Eq50, NL, "<--- Start-File: ">>
                 \/ \A e \in 5..Len(doc) : doc[e] # " --->"
    THEN Malformed
    ELSE LET e == CHOOSE e \in 5..Len(doc) :
                     doc[e] = " --->" /\ \A j \in 5..(e - 1) : doc[j] # " --->"
             rel == SubSeq(doc, 5, e - 1)
             c == e + 5
             tail == <<NL, NL, Eq50, NL, "<--- End-File: ">> \o rel
                     \o <<" --->", NL, Eq50, NL>>
             ends == {t \in c..(Len(doc) - Len(tail) + 1) :
                         SubSeq(doc, t, t + Len(tail) - 1) = tail}
         IN  IF SubSeq(doc, e + 1, e + 4) # <<NL, Eq50, NL, NL>> \/ ends = {}
             THEN Malformed
             ELSE LET t == CHOOSE t \in ends : \A u \in ends : t <= u
                  IN  <<[rel |-> rel, content |-> SubSeq(doc, c, t - 1)]>>
                      \o ParseBlocks(SubSeq(doc, t + Len(tail), Len(doc)))

\* C7: the content output is, for the files read so far in FileSet order, the
\* sequence of blocks of the exact documented form (50 "=" separators, the
\* same relative path in both markers), and reading the blocks back gives
\* each file's relative path and its content unchanged.
C7_BlockFormat ==
    /\ mergedContent =
          Concat([i \in 1..(ridx - 1) |->
                    ExpectedBlock(relativePathOf(workspaceRoot, fileSet[i]),
                                  FileContent[fileSet[i]])])
    /\ ParseBlocks(mergedContent) =
          [i \in 1..(ridx - 1) |->
              [rel |-> relativePathOf(workspaceRoot, fileSet[i]),
               content |-> FileContent[fileSet[i]]]]

\* the whole content was built from an empty file and from a file whose
\* text holds newlines and an End-File line of its own
C7_Witness ==
    /\ finalContent.set
    /\ \E p, q \in Range(fileSet) :
          /\ FileContent[p] = << >>
          /\ "<--- End-File: " \in Range(FileContent[q])

\* ------------------------------------------------------------------- C9
\* C9: the document is the tree, then three newlines, then the content
\* blocks; with an empty FileSet tree and content are empty, the document is
\* the three newlines alone, and the command still delivers it without error.
C9_Document ==
    finalContent.set =>
       /\ finalContent.text = treeContent \o <<NL, NL, NL>> \o mergedContent
       /\ fileSet = << >> =>
             /\ treeContent = << >>
             /\ mergedContent = << >>
             /\ finalContent.text = <<NL, NL, NL>>
       /\ pc = "done" =>
             /\ thrown = ""
             /\ IF cmd = "ExportFiles" THEN destFile = finalContent
                ELSE clipboard = finalContent

\* an empty directory selected alone, and the document delivered
C9_Witness ==
    /\ pc = "done"
    /\ Len(selectedFiles) = 1
    /\ selectedFiles[1] \in Dirs
    /\ DirEntries[selectedFiles[1]] = << >>
    /\ statFailed = {} /\ listFailed = {}
    /\ finalContent = Text(<<NL, NL, NL>>)
    /\ destFile = finalContent

\* ------------------------------------------------------------------ C10
\* the uris held by the activations of listFiles
StackUris == UNION {Range(stack[i].uris) : i \in 1..Len(stack)}

\* C10: at every point of the resolution the FileSet, and what listFiles
\* collects for it, holds only paths of type File; only such paths are ever
\* handed to the ignore predicate.
C10_OnlyFiles ==
    \A p \in Range(fileSet) \cup Range(recursiveFiles) \cup StackUris \cup tested :
        TypeOf[p] = File

\* a directory holding a subdirectory and a symbolic link was resolved, and
\* a symbolic link was selected too
C10_Witness ==
    /\ pc = "buildFilesContent"
    /\ fileSet # << >>
    /\ tested # {}
    /\ statFailed = {} /\ listFailed = {}
    /\ \E i, j \in 1..Len(selectedFiles) :
          /\ TypeOf[selectedFiles[i]] = Directory
          /\ \E k, m \in 1..Len(DirEntries[selectedFiles[i]]) :
                /\ DirEntries[selectedFiles[i]][k][2] = Directory
                /\ DirEntries[selectedFiles[i]][m][2] = SymbolicLink
          /\ TypeOf[selectedFiles[j]] = SymbolicLink

\* ------------------------------------------------------------------- C8
\* the distinct non-empty proper prefixes of the relative paths of a FileSet
ProperPrefixes(fs) ==
    UNION {{SubSeq(split(relativePathOf(workspaceRoot, fs[i])), 1, k) :
               k \in 1..(Len(split(relativePathOf(workspaceRoot, fs[i]))) - 1)} :
           i \in 1..Len(fs)}

NoRulesApply == ~respectGitignore \/ ~gitignore.exists

\* C11: when no rules apply, the predicate of getGitignoreFilter returns true
\* for every path it is given, and the FileSet is the set of all files
\* reached from the selection entries processed so far.
C11_AcceptAllWithoutRules ==
    (workspaceFolders /\ NoRulesApply) =>
       /\ \A p \in tested : applyFilter(gitignoreFilter, workspaceRoot, p) = "true"
       /\ \A i \in 1..(idx - 1) : Reached(i) \subseteq Range(fileSet)
       /\ pc = "buildFilesContent" =>
             Range(fileSet) = UNION {Reached(i) : i \in 1..Len(selectedFiles)}

\* ------------------------------------------------------------------ C12
\* C12: binary files are excluded: the document has no content block for a
\* file whose content is binary, selected directly or found in a directory.
C12_NoBinaryBlock ==
    finalContent.set =>
       \A p \in BinaryFiles : CountSub(finalContent.text, StartLine(p)) = 0

\* ------------------------------------------------------------------ C13
\* the resolution of the selection is over: the loop of getFilesContent has
\* no entry left, or the command is past it
ResolutionOver ==
    \/ pc = "loop" /\ idx > Len(selectedFiles)
    \/ pc \in {"buildFilesContent", "deliver", "done"}

\* path d is selection entry i or lies below it
Within(d, i) ==
    /\ Len(selectedFiles[i]) <= Len(d)
    /\ SubSeq(d, 1, Len(selectedFiles[i])) = selectedFiles[i]

\* what holds of the directory listings at every point
C13_Listings ==
    /\ NoDup(listings)
    /\ \A k \in 1..Len(listings) :
          /\ TypeOf[listings[k][2]] = Directory
          /\ Within(listings[k][2], listings[k][1])
    /\ \A k \in 1..Len(stack) : TypeOf[stack[k].uri] = Directory
    /\ \A e \in listFailed : stack = << >> \/ e[1] # idx \/ \A k \in 1..Len(stack) : stack[k].uri # e[2]

\* C13: the resolution of every selection terminates, whatever stat and
\* readDirectory calls fail: while an entry is processed each directory is
\* listed at most once, only entries of type Directory (never a symbolic
\* link) are listed, a directory whose listing failed is not tried again,
\* and from the start of the loop the resolution is eventually over.
C13_ResolutionTerminates ==
    []C13_Listings /\ ((pc = "loop") ~> ResolutionOver)

\* the loop has ended after a failed stat and a failed listing, and a
\* listed directory held a symbolic link
C13_Witness ==
    /\ pc = "buildFilesContent"
    /\ statFailed # {}
    /\ listFailed # {}
    /\ \E k \in 1..Len(listings) :
          \E m \in 1..Len(DirEntries[listings[k][2]]) :
             DirEntries[listings[k][2]][m][2] = SymbolicLink

\* ------------------------------------------------------------------ C14
\* getFilesContent has returned the whole document: every selection entry
\* was resolved, every file of the set was read, and the document is the
\* tree, the joiner and the blocks
Returned ==
    /\ finalContent.set
    /\ thrown = ""
    /\ idx > Len(selectedFiles)
    /\ ridx > Len(fileSet)
    /\ finalContent.text = treeContent \o Joiner \o mergedContent
    /\ \A p \in Range(fileSet) : CountSub(finalContent.text, EndLine(p)) >= 1

\* no file was stat-ed, listed or read
NoFileTouched ==
    /\ idx = 1
    /\ ridx = 1
    /\ faults = 0
    /\ listings = << >>
    /\ tested = {}
    /\ fileSet = << >>
    /\ mergedContent = << >>

\* what holds of the sinks at every point
C14_Sinks ==
    /\ destFile.set => cmd = "ExportFiles" /\ outputPath /\ Returned
                        /\ destFile.text = finalContent.text
    /\ clipboard.set => cmd = "CopyFiles" /\ Returned
                         /\ clipboard.text = finalContent.text
                         /\ messages = <<CopiedMessage>>
    /\ messages # << >> => clipboard.set
    /\ (pc = "done" /\ cmd = "ExportFiles" /\ ~outputPath) =>
          NoFileTouched /\ ~destFile.set /\ thrown = ""
    /\ thrown # "" => pc = "done" /\ ~destFile.set /\ ~clipboard.set /\ messages = << >>

\* a step that changes a sink is taken when getFilesContent has returned
C14_WriteAfterReturn ==
    (destFile' # destFile \/ clipboard' # clipboard \/ messages' # messages) =>
       pc = "deliver" /\ Returned

\* C14: a sink gets the whole document or nothing.  The destination file is
\* written, and the clipboard is filled and the message shown, only once
\* getFilesContent has returned the complete document; after a cancelled
\* save dialog no file was stat-ed, listed or read; after a throw the file
\* and the clipboard are as they were and the error has left the command.
C14_AllOrNothing == []C14_Sinks /\ [][C14_WriteAfterReturn]_vars

\* an export has written a document of several files although a stat or a
\* listing failed on the way
C14_Witness ==
    /\ pc = "done"
    /\ cmd = "ExportFiles"
    /\ destFile.set
    /\ Len(fileSet) >= 2
    /\ faults > 0

\* a cancelled export has ended
C14_Cancelled == pc = "done" /\ cmd = "ExportFiles" /\ workspaceFolders /\ ~outputPath

\* a command has ended by throwing after files were read
C14_Thrown == thrown # "" /\ ridx > 1

====
